---------------------------- MODULE Spec2Model ----------------------------
(***************************************************************************)
(* Model of homework.py: a bot that polls the review service, sends a      *)
(* chat message per status text that differs from the last recorded text,  *)
(* reports failures the same way, and sleeps RETRY_TIME between cycles.    *)
(*                                                                         *)
(* Texts are TLA+ strings.  The Russian literals of the source are written *)
(* letter for letter in Latin characters, so every literal keeps the       *)
(* length it has in the source and the 100-character cut of an error       *)
(* message falls where it falls in the program.                            *)
(***************************************************************************)
EXTENDS Integers, Sequences, FiniteSets, TLC

VARIABLES
    env,                \* PRACTICUM_TOKEN, TELEGRAM_TOKEN, TELEGRAM_CHAT_ID
    pc,                 \* position of main()
    current_timestamp,  \* main: the checkpoint
    previous_message,   \* main: the one recorded text
    response,           \* main: the value get_api_answer returned
    homeworks,          \* main: the list check_response returned
    idx,                \* main: position of the for loop in homeworks
    error,              \* main: the exception caught by `except Exception`
    ticks,              \* number of RETRY_TIME sleeps the clock has advanced
    persist,            \* environment: the answer the service keeps giving
    cyc,                \* history of the current cycle
    prev,               \* history: summary of the previous cycle
    last                \* history: last recorded text of each kind

vars == <<env, pc, current_timestamp, previous_message, response, homeworks,
          idx, error, ticks, persist, cyc, prev, last>>

-----------------------------------------------------------------------------
(* Program constants *)

RETRY_TIME == 600
COUNT_PREVIOUS_DAYS == 30
ERROR_MESSAGE_LENGTH == 100
ENDPOINT == "https://practicum.yandex.ru/api/user_api/homework_statuses/"

VerdictKeys == {"approved", "reviewing", "rejected"}

VERDICTS ==
    [s \in VerdictKeys |->
        CASE s = "approved"  -> "Rabota proverena: revxueru vse ponravilosx. Ura!"
          [] s = "reviewing" -> "Rabota vzata na proverku revxuerom."
          [] s = "rejected"  -> "Rabota proverena: u revxuera estx zamecania."]

-----------------------------------------------------------------------------
(* Bounds and the inputs the environment draws from *)

MaxItems == 2       \* longest homeworks list a payload carries
MaxTicks == 2       \* the clock stops advancing after this many sleeps

\* the local clock when main() starts (seconds since the epoch)
StartTime == 17 * 100000000

None == "<None>"
TokenValues == {None, "", "secret"}

ServerDates == {0, StartTime + 5}
HomeworkNames == {"hw1"}
Statuses == {"approved", "rejected", "in_review"}
TransportErrors == {"Connection refused"}
HttpStatuses == {403}
SendReasons == {"Timed out"}

-----------------------------------------------------------------------------
(* Python values *)

Min(a, b) == IF a <= b THEN a ELSE b

\* s[:n]
Take(s, n) == SubSeq(s, 1, Min(n, Len(s)))

HasChar(s, c) == \E i \in 1..Len(s) : SubSeq(s, i, i) = c

\* repr() of a str: single quotes, double quotes when the text holds a
\* single quote and no double quote
PyRepr(s) ==
    IF HasChar(s, "'") /\ ~HasChar(s, "\"")
    THEN "\"" \o s \o "\""
    ELSE "'" \o s \o "'"

Exc(type, arg) == [type |-> type, arg |-> arg]
NoError == Exc("none", "")

\* str(error): KeyError shows the repr of its argument
Str(e) == IF e.type = "KeyError" THEN PyRepr(e.arg) ELSE e.arg

Raise(e) == [raised |-> TRUE, exc |-> e, value |-> [t |-> "none"]]
Return(v) == [raised |-> FALSE, exc |-> NoError, value |-> v]

\* JSON values as Python objects, tagged with their type
JList(xs) == [t |-> "list", v |-> xs]
JStr(s) == [t |-> "str", v |-> s]
JDict(d) == [t |-> "dict", v |-> d]
NoResponse == [t |-> "none"]

RECURSIVE SeqsUpTo(_, _)
SeqsUpTo(S, n) ==
    IF n = 0 THEN {<<>>}
    ELSE LET shorter == SeqsUpTo(S, n - 1)
         IN shorter \cup {Append(xs, x) : xs \in {y \in shorter : Len(y) = n - 1}, x \in S}

Homeworks == [homework_name : HomeworkNames, status : Statuses]
HomeworkLists == SeqsUpTo(Homeworks, MaxItems)

ValidPayloads ==
    {JDict([current_date |-> d, homeworks |-> JList(hs)]) :
        d \in ServerDates, hs \in HomeworkLists}

Payloads ==
    ValidPayloads
    \cup {JList(<<>>)}
    \cup {JDict([homeworks |-> JList(<<>>)])}
    \cup {JDict([current_date |-> d, homeworks |-> JStr("none")]) : d \in ServerDates}

\* what the service does with one request
Outcome(kind, reason, status, redirect, body) ==
    [kind |-> kind, reason |-> reason, status |-> status,
     is_redirect |-> redirect, body |-> body]
NoOutcome == Outcome("none", "", 0, FALSE, NoResponse)
FetchOutcomes ==
    {Outcome("transport", r, 0, FALSE, NoResponse) : r \in TransportErrors}
    \cup {Outcome("http", "", s, b, NoResponse) : s \in HttpStatuses, b \in BOOLEAN}
    \cup {Outcome("badjson", "Expecting value: line 1 column 1 (char 0)", 200,
                  FALSE, NoResponse)}
    \cup {Outcome("json", "", 200, FALSE, p) : p \in Payloads}

\* what the chat transport does with one bot.send_message call
SendOutcomes ==
    {Exc("none", "")}
    \cup {Exc("BotSendMessageError", r) : r \in SendReasons}
    \cup {Exc("TelegramError", r) : r \in SendReasons}

-----------------------------------------------------------------------------
(* The functions of homework.py *)

\* time.time() after `ticks` sleeps
Clock(t) == StartTime + t * RETRY_TIME

\* send_message(bot, message); o is what bot.send_message does
send_message(message, o) ==
    IF o.type = "none" THEN Return(None)
    ELSE IF o.type = "BotSendMessageError"
    THEN Raise(Exc("BotSendMessageError",
                   "Botu ne udalosx otpravitx soobwenie: " \o message
                   \o " po pricine " \o Str(o)))
    ELSE Raise(o)

\* get_api_answer: timestamp = current_timestamp or int(time.time())
FromDate(timestamp, clock) == IF timestamp # 0 THEN timestamp ELSE clock

RequestUrl(from_date) == ENDPOINT \o "?from_date=" \o ToString(from_date)

\* get_api_answer(current_timestamp); o is what the service does
get_api_answer(timestamp, o, clock) ==
    IF o.kind = "transport"
    THEN Raise(Exc("ConnectionError", "Nedostupen endpoint servisa " \o o.reason))
    ELSE IF o.kind = "badjson" THEN Raise(Exc("JSONDecodeError", o.reason))
    ELSE IF o.kind = "json" THEN Return(o.body)
    ELSE Raise(Exc("WrongConnectionError",
                   "Nevernyi rezulxtat zaprosa k API: "
                   \o "Server vernul status " \o ToString(o.status)
                   \o " pri ispolnenii zaprosa k url "
                   \o RequestUrl(FromDate(timestamp, clock))
                   \o ". Perenapravlenie: "
                   \o (IF o.is_redirect THEN "Da" ELSE "Net")))

\* mutant of check_response: the type of homeworks looked at before the keys
check_response_type_first(r) ==
    IF r.t # "dict"
    THEN Raise(Exc("TypeError", "Otvet servisa ne avlaetsa slovarem"))
    ELSE IF "homeworks" \in DOMAIN r.v /\ r.v.homeworks.t # "list"
    THEN Raise(Exc("TypeError", "Dannye homeworks ne avlautsa spiskom"))
    ELSE IF ~({"current_date", "homeworks"} \subseteq DOMAIN r.v)
    THEN Raise(Exc("KeyError", "V otvete servisa net dannyh po nujnym klucam"))
    ELSE Return(r.v.homeworks)

check_response(r) ==
    IF r.t # "dict"
    THEN Raise(Exc("TypeError", "Otvet servisa ne avlaetsa slovarem"))
    ELSE IF ~({"current_date", "homeworks"} \subseteq DOMAIN r.v)
    THEN Raise(Exc("KeyError", "V otvete servisa net dannyh po nujnym klucam"))
    ELSE IF r.v.homeworks.t # "list"
    THEN Raise(Exc("TypeError", "Dannye homeworks ne avlautsa spiskom"))
    ELSE Return(r.v.homeworks)

\* mutant of parse_status: a status outside the table passed on as the verdict
parse_status_lenient(homework) ==
    Return("Izmenilsa status proverki raboty \"" \o homework.homework_name
           \o "\". "
           \o (IF homework.status \in DOMAIN VERDICTS
               THEN VERDICTS[homework.status] ELSE homework.status))

parse_status(homework) ==
    IF "homework_name" \notin DOMAIN homework
    THEN Raise(Exc("KeyError", "homework_name"))
    ELSE IF "status" \notin DOMAIN homework
    THEN Raise(Exc("KeyError", "status"))
    ELSE IF homework.status \in DOMAIN VERDICTS
    THEN Return("Izmenilsa status proverki raboty \"" \o homework.homework_name
                \o "\". " \o VERDICTS[homework.status])
    ELSE Raise(Exc("KeyError",
                   "Polucen nedokumentirovannyi status domawnei raboty - "
                   \o Str(Exc("KeyError", homework.status))))

Truthy(v) == v # None /\ v # ""

\* mutant of check_tokens: any() in place of all()
check_tokens_any(e) ==
    Truthy(e.PRACTICUM_TOKEN) \/ Truthy(e.TELEGRAM_TOKEN) \/ Truthy(e.TELEGRAM_CHAT_ID)

check_tokens(e) ==
    Truthy(e.PRACTICUM_TOKEN) /\ Truthy(e.TELEGRAM_TOKEN) /\ Truthy(e.TELEGRAM_CHAT_ID)

\* the status the process exits with when exception e leaves main():
\* sys.exit(None) gives 0, sys.exit(<text>) and an uncaught exception give 1
ExitStatus(e) == IF e.type = "SystemExit" /\ e.arg = None THEN 0 ELSE 1

\* main, line 128: the text a status message is compared and recorded by
NotificationKey(message) == message

\* main, lines 137-138: the text an error message is compared and recorded by
ErrorKey(message) == Take(message, ERROR_MESSAGE_LENGTH)

\* main, line 135
ErrorMessage(e) == "Sboi v rabote programmy: " \o Str(e)

\* mutant of IsNew: the comparison written the wrong way round
IsNewInverted(previous, key) == previous = key

\* mutant of IsNew: no comparison, every text is taken as new
IsNewAlways(previous, key) == TRUE

\* main, lines 128 and 137: previous_message != <text>
IsNew(previous, key) == previous # key

\* mutant of NextCheckpoint: the checkpoint taken from the local clock
NextCheckpointLocalClock(r) == Clock(ticks)

\* main, line 133: the value assigned to current_timestamp
NextCheckpoint(r) == r.v.current_date

-----------------------------------------------------------------------------
(* History kept for the properties; the program reads none of it *)

\* the levels at which get_api_answer logs (lines 54, 63, 76)
FetchLevels(o) == {"info"} \cup (IF o.kind = "http" THEN {"error"} ELSE {})

\* the levels at which send_message logs (lines 37, 43, 46)
SendLevels(o) ==
    {"info"} \cup (IF o.type = "BotSendMessageError" THEN {"error"} ELSE {})

NewCycle(ts) ==
    [start_ts |-> ts, from_date |-> -1, stage |-> "none", date |-> -1,
     log |-> <<>>, assigns |-> 0, raised |-> FALSE, errkey |-> "", errmsg |-> "",
     levels |-> {}]

\* the item whose status send raised in a cycle, 0 when none did
FailedAt(log) ==
    IF \E i \in DOMAIN log : log[i].kind = "status" /\ log[i].delivered = "failed"
    THEN CHOOSE i \in DOMAIN log : log[i].kind = "status" /\ log[i].delivered = "failed"
    ELSE 0

\* what is kept of a cycle when the next one starts; persisted: the cycle's
\* fetch got the answer the service has settled on
Summary(c) ==
    [start_ts |-> c.start_ts, from_date |-> c.from_date, stage |-> c.stage,
     raised |-> c.raised, errkey |-> c.errkey, errmsg |-> c.errmsg,
     failedAt |-> FailedAt(c.log), persisted |-> persist # NoOutcome]

\* one pass through a dedup comparison: the text, whether it passed as new,
\* how its delivery ended, the text of its kind recorded before it, the
\* kind of the recording made before it, and the value of previous_message
\* it was compared with
Entry(kind, text, key, passed, delivered) ==
    [kind |-> kind, text |-> text, key |-> key, passed |-> passed,
     delivered |-> delivered, lastSame |-> last[kind], after |-> last.kind,
     before |-> previous_message]

Delivered(s) == IF s.raised THEN "failed" ELSE "ok"

-----------------------------------------------------------------------------
(* main() *)

Init ==
    /\ env \in [PRACTICUM_TOKEN : TokenValues, TELEGRAM_TOKEN : TokenValues,
                TELEGRAM_CHAT_ID : TokenValues]
    /\ pc = "start"
    /\ current_timestamp = 0
    /\ previous_message = ""
    /\ response = NoResponse
    /\ homeworks = <<>>
    /\ idx = 1
    /\ error = NoError
    /\ ticks = 0
    /\ persist = NoOutcome
    /\ cyc = NewCycle(0)
    /\ prev = Summary(NewCycle(0))
    /\ last = [status |-> "", error |-> "", kind |-> "none"]

\* lines 111-120
Startup ==
    /\ pc = "start"
    /\ IF ~check_tokens(env)
       THEN /\ pc' = "exited"
            /\ error' = Exc("SystemExit", "Ne zapolneny peremennye okrujenia.")
            /\ cyc' = [cyc EXCEPT !.levels = {"critical"}]
            /\ UNCHANGED current_timestamp
       ELSE /\ pc' = "fetch"
            /\ current_timestamp' = Clock(ticks) - COUNT_PREVIOUS_DAYS * 86400
            /\ cyc' = NewCycle(current_timestamp')
            /\ UNCHANGED error
    /\ previous_message' = ""
    /\ UNCHANGED <<env, response, homeworks, idx, ticks, persist, prev, last>>

\* lines 124-125: get_api_answer, then check_response
Fetch ==
    /\ pc = "fetch"
    /\ \E o \in FetchOutcomes :
        /\ persist = NoOutcome \/ o = persist
        /\ persist' \in {persist, o}
        /\ LET a == get_api_answer(current_timestamp, o, Clock(ticks))
               c == check_response(a.value)
               sent == [cyc EXCEPT !.from_date =
                            FromDate(current_timestamp, Clock(ticks)),
                                   !.levels = @ \cup FetchLevels(o)]
           IN  IF a.raised
               THEN /\ pc' = "except"
                    /\ error' = a.exc
                    /\ cyc' = [sent EXCEPT !.stage = "fetch_failed"]
                    /\ UNCHANGED <<response, homeworks>>
               ELSE IF c.raised
               THEN /\ pc' = "except"
                    /\ error' = c.exc
                    /\ response' = a.value
                    /\ cyc' = [sent EXCEPT !.stage = "invalid"]
                    /\ UNCHANGED homeworks
               ELSE /\ pc' = "loop"
                    /\ response' = a.value
                    /\ homeworks' = c.value.v
                    /\ cyc' = [sent EXCEPT !.stage = "valid",
                                           !.date = a.value.v.current_date]
                    /\ UNCHANGED error
    /\ idx' = 1
    /\ UNCHANGED <<env, current_timestamp, previous_message, ticks, prev, last>>

\* lines 126-130: one pass of the for loop
LoopItem ==
    /\ pc = "loop"
    /\ idx <= Len(homeworks)
    /\ LET r == parse_status(homeworks[idx])
           message == r.value
           key == NotificationKey(message)
       IN  IF r.raised
           THEN /\ pc' = "except"
                /\ error' = r.exc
                /\ UNCHANGED <<previous_message, idx, cyc, last>>
           ELSE IF IsNew(previous_message, key)
           THEN \E o \in SendOutcomes :
                  LET s == send_message(message, o)
                  IN  /\ previous_message' = key
                      /\ last' = [last EXCEPT !.status = key, !.kind = "status"]
                      /\ cyc' = [cyc EXCEPT !.log = Append(@,
                                    Entry("status", message, key, TRUE, Delivered(s))),
                                             !.levels = @ \cup SendLevels(o)]
                      /\ IF s.raised
                         THEN pc' = "except" /\ error' = s.exc /\ UNCHANGED idx
                         ELSE idx' = idx + 1 /\ UNCHANGED <<pc, error>>
           ELSE /\ idx' = idx + 1
                /\ cyc' = [cyc EXCEPT !.log = Append(@,
                              Entry("status", message, key, FALSE, "none"))]
                /\ UNCHANGED <<pc, error, previous_message, last>>
    /\ UNCHANGED <<env, current_timestamp, response, homeworks, ticks, persist, prev>>

\* lines 131-133: the loop is over
Advance ==
    /\ pc = "loop"
    /\ idx > Len(homeworks)
    /\ current_timestamp' = NextCheckpoint(response)
    /\ cyc' = [cyc EXCEPT !.assigns = @ + 1,
                          !.levels = @ \cup (IF Len(homeworks) = 0 THEN {"debug"} ELSE {})]
    /\ pc' = "sleep"
    /\ UNCHANGED <<env, previous_message, response, homeworks, idx, error, ticks,
                   persist, prev, last>>

\* mutant of Except: the handler leaves previous_message as it found it
ExceptKeepsRecord ==
    /\ pc = "except"
    /\ LET message == ErrorMessage(error)
           key == ErrorKey(message)
           failed == [cyc EXCEPT !.raised = TRUE, !.errkey = key, !.errmsg = message,
                                 !.levels = @ \cup {"error"}]
       IN  IF IsNew(previous_message, key)
           THEN \E o \in SendOutcomes :
                  LET s == send_message(message, o)
                  IN  /\ previous_message' = previous_message
                      /\ last' = [last EXCEPT !.error = key, !.kind = "error"]
                      /\ cyc' = [failed EXCEPT !.log = Append(@,
                                    Entry("error", message, key, TRUE, Delivered(s))),
                                                !.levels = @ \cup SendLevels(o)]
                      /\ IF s.raised
                         THEN pc' = "crashed" /\ error' = s.exc
                         ELSE pc' = "sleep" /\ UNCHANGED error
           ELSE /\ pc' = "sleep"
                /\ cyc' = [failed EXCEPT !.log = Append(@,
                              Entry("error", message, key, FALSE, "none"))]
                /\ UNCHANGED <<error, previous_message, last>>
    /\ UNCHANGED <<env, current_timestamp, response, homeworks, idx, ticks, persist, prev>>

\* lines 134-139: except Exception as error
Except ==
    /\ pc = "except"
    /\ LET message == ErrorMessage(error)
           key == ErrorKey(message)
           failed == [cyc EXCEPT !.raised = TRUE, !.errkey = key, !.errmsg = message,
                                 !.levels = @ \cup {"error"}]
       IN  IF IsNew(previous_message, key)
           THEN \E o \in SendOutcomes :
                  LET s == send_message(message, o)
                  IN  /\ previous_message' = key
                      /\ last' = [last EXCEPT !.error = key, !.kind = "error"]
                      /\ cyc' = [failed EXCEPT !.log = Append(@,
                                    Entry("error", message, key, TRUE, Delivered(s))),
                                                !.levels = @ \cup SendLevels(o)]
                      /\ IF s.raised
                         THEN pc' = "crashed" /\ error' = s.exc
                         ELSE pc' = "sleep" /\ UNCHANGED error
           ELSE /\ pc' = "sleep"
                /\ cyc' = [failed EXCEPT !.log = Append(@,
                              Entry("error", message, key, FALSE, "none"))]
                /\ UNCHANGED <<error, previous_message, last>>
    /\ UNCHANGED <<env, current_timestamp, response, homeworks, idx, ticks, persist, prev>>

\* line 140: time.sleep(RETRY_TIME), then the next pass of `while True`
\* (the locals of the pass are cleared: the next pass assigns each before it
\* reads it)
Sleep ==
    /\ pc = "sleep"
    /\ pc' = "fetch"
    /\ ticks' = Min(ticks + 1, MaxTicks)
    /\ prev' = Summary(cyc)
    /\ cyc' = NewCycle(current_timestamp)
    /\ response' = NoResponse
    /\ homeworks' = <<>>
    /\ idx' = 1
    /\ error' = NoError
    /\ UNCHANGED <<env, current_timestamp, previous_message, persist, last>>

Next == Startup \/ Fetch \/ LoopItem \/ Advance \/ Except \/ Sleep

Spec == Init /\ [][Next]_vars

\* the interpreter keeps running main() until it exits or an exception leaves it
FairSpec == Spec /\ WF_vars(Next)

TypeOK ==
    /\ pc \in {"start", "exited", "fetch", "loop", "except", "sleep", "crashed"}
    /\ current_timestamp \in Int
    /\ ticks \in 0..MaxTicks
    /\ idx \in 1..(MaxItems + 1)

-----------------------------------------------------------------------------
(* Properties *)

Log == cyc.log
Entries == {Log[i] : i \in DOMAIN Log}

\* the cycle has run to its end: main is at the sleep, or has left the loop
CycleOver == pc \in {"sleep", "crashed"}

\* C1: once the credential check has passed, no failure terminates the main
\* loop: a state in which an exception has left main() is unreachable.
C1_LoopNeverTerminates == pc # "crashed"

\* C2: a status text passes to the notifier if and only if it differs from
\* the most recently recorded status text.
C2_LastValueDedup ==
    \A e \in Entries :
        e.kind = "status" => (e.passed <=> e.key # e.lastSame)

\* C3: the last status text and the last error text are tracked
\* independently: a recording of the other kind in between does not make a
\* text equal to the last recorded text of its own kind pass as new.
C3_IndependentTracking ==
    \A e \in Entries :
        (e.after # e.kind /\ e.key = e.lastSame) => ~e.passed

\* C4: of two failing cycles in a row whose error messages agree on their
\* first 100 characters and differ only after them, the second attempts no
\* error notification.
C4_SecondErrorSuppressed ==
    (/\ prev.raised
     /\ cyc.raised
     /\ prev.errmsg # cyc.errmsg
     /\ Take(prev.errmsg, 100) = Take(cyc.errmsg, 100))
    => \A e \in Entries : e.kind = "error" => ~e.passed

\* C5: a cycle whose fetch or validation fails leaves the checkpoint
\* unchanged, and the next fetch is issued with the same from_date.
C5_RetrySameFromDate ==
    (prev.stage \in {"fetch_failed", "invalid"} /\ cyc.from_date # -1)
    => (cyc.start_ts = prev.start_ts /\ cyc.from_date = prev.from_date)

C7_FromDateIsCheckpoint ==
    cyc.from_date # -1 => cyc.from_date = cyc.start_ts

ErrorEntries == {i \in DOMAIN Log : Log[i].kind = "error"}

\* C8: a failing cycle makes at most one error notification attempt, and
\* exactly one when the first 100 characters of its error message differ
\* from the last recorded error text.
C8_OneErrorAttempt ==
    /\ Cardinality(ErrorEntries) <= 1
    /\ \A i \in ErrorEntries :
          /\ cyc.raised
          /\ Log[i].key = Take(cyc.errmsg, 100)
          /\ Log[i].key # Log[i].lastSame => Log[i].passed
    /\ (CycleOver /\ cyc.raised) => Cardinality(ErrorEntries) = 1
    /\ ~cyc.raised => ErrorEntries = {}

\* C8 witness: a cycle that sent a status text, failed on the next item, and
\* attempted one error notification with a prefix not recorded before.
C8_Witness ==
    /\ pc = "sleep"
    /\ cyc.raised
    /\ \E i \in ErrorEntries :
          /\ i > 1
          /\ Log[i].passed
          /\ Log[i].key # Log[i].lastSame
          /\ Len(cyc.errmsg) > 100

\* C9: a failed delivery triggers no further notification attempt: after a
\* send that failed, no send is attempted in the same cycle.
C9_NoSendAfterFailedSend ==
    \A i, j \in DOMAIN Log :
        (i < j /\ Log[i].delivered = "failed") => ~Log[j].passed

\* a step in which a message is handed to the chat transport
SendStep ==
    Cardinality({i \in DOMAIN cyc'.log : cyc'.log[i].passed})
        > Cardinality({i \in DOMAIN cyc.log : cyc.log[i].passed})

\* a step in which a delivery fails
FailedSendStep ==
    \E i \in DOMAIN cyc'.log :
        i > Len(cyc.log) /\ cyc'.log[i].delivered = "failed"

\* C10: if from some point on the service gives the same answer in every
\* cycle, then from some cycle on no further message is sent to the chat.
\* Stated for the behaviours in which the chat transport, too, stops failing:
\* a persisting answer of the service alone must not keep messages coming.
C10_NoFlood ==
    (<>(persist # NoOutcome) /\ <>[][~FailedSendStep]_vars)
    => <>[][~SendStep]_vars

\* the step that ends a cycle whose payload carries an empty homeworks list
EmptyPayloadStep == pc = "loop" /\ homeworks = <<>> /\ cyc.stage = "valid"

\* C11 (as claimed): a cycle whose fetch returns HTTP 200 with an empty
\* homeworks list makes no send attempt, takes no error path, logs nothing
\* above debug level, leaves the dedup state unchanged and advances the
\* checkpoint to the payload's current_date.
C11_EmptyPayloadSilent ==
    [][EmptyPayloadStep =>
          /\ pc' = "sleep"
          /\ cyc.log = <<>> /\ cyc'.log = <<>>
          /\ ~cyc'.raised
          /\ cyc'.levels \subseteq {"debug"}
          /\ previous_message' = previous_message
          /\ current_timestamp' = cyc.date]_vars

\* C11 (amended): as claimed, except that what is logged is the two info
\* records of the fetch and the debug record; nothing is logged at error
\* level or above.
C11_EmptyPayloadCycle ==
    [][EmptyPayloadStep =>
          /\ pc' = "sleep"
          /\ cyc.log = <<>> /\ cyc'.log = <<>>
          /\ ~cyc'.raised
          /\ cyc'.levels = {"info", "debug"}
          /\ previous_message' = previous_message
          /\ current_timestamp' = cyc.date]_vars

\* C11 witness: a cycle over an empty list has ended; a text recorded by an
\* earlier cycle is still the recorded one and the checkpoint has moved.
C11_Witness ==
    /\ pc = "sleep"
    /\ cyc.stage = "valid"
    /\ homeworks = <<>>
    /\ "debug" \in cyc.levels
    /\ previous_message # ""
    /\ current_timestamp = cyc.date
    /\ cyc.date # cyc.start_ts

Tokens == {env.PRACTICUM_TOKEN, env.TELEGRAM_TOKEN, env.TELEGRAM_CHAT_ID}
TokenMissing == \E t \in Tokens : t = None \/ t = ""

\* C12: the process halts only at startup and only when one of the three
\* credentials is absent or empty; it then exits with a non-zero status
\* before any fetch or send; with all three present it never halts.
C12_HaltOnlyOnMissingToken ==
    /\ pc = "exited" =>
          /\ TokenMissing
          /\ error.type = "SystemExit" /\ ExitStatus(error) # 0
          /\ ticks = 0 /\ prev.stage = "none"
    /\ TokenMissing =>
          /\ pc \in {"start", "exited"}
          /\ cyc.from_date = -1 /\ cyc.log = <<>>
    /\ ~TokenMissing => pc # "exited"

\* C12 witness: two credentials are set and the chat id is empty; the
\* process has exited.
C12_Witness ==
    /\ pc = "exited"
    /\ env.PRACTICUM_TOKEN = "secret"
    /\ env.TELEGRAM_TOKEN = "secret"
    /\ env.TELEGRAM_CHAT_ID = ""

\* the text the verdict table gives for an item of the payload
StatusText(h) ==
    "Izmenilsa status proverki raboty \"" \o h.homework_name \o "\". "
    \o VERDICTS[h.status]

StatusAttempts == {i \in DOMAIN Log : Log[i].kind = "status" /\ Log[i].passed}

\* C13: in a cycle over a valid payload of N items the status comparisons
\* are made one per item, in the order of the payload (the i-th comparison
\* is about the i-th item), so at most N attempts are made; an item whose
\* text equals the recorded text is not attempted.
C13_AttemptsFollowItems ==
    /\ Cardinality(StatusAttempts) <= Len(homeworks)
    /\ \A i \in DOMAIN Log :
          Log[i].kind = "status" =>
              /\ cyc.stage = "valid"
              /\ i <= Len(homeworks)
              /\ i < idx \/ (i = idx /\ pc \in {"except", "crashed", "sleep"})
              /\ homeworks[i].status \in VerdictKeys
              /\ Log[i].text = StatusText(homeworks[i])
              /\ Log[i].key = Log[i].text
              /\ (Log[i].key = Log[i].before => ~Log[i].passed)
              /\ \A j \in 1..(i - 1) : Log[j].kind = "status"

C13_Witness ==
    /\ pc = "sleep"
    /\ Len(homeworks) = 2
    /\ Len(Log) = 2
    /\ homeworks[1] = homeworks[2]
    /\ Log[1].passed /\ Log[1].delivered = "ok"
    /\ ~Log[2].passed

\* the most recent recording of the cycle: the last comparison that passed
LastRecording == {i \in DOMAIN Log : Log[i].passed /\ \A j \in DOMAIN Log : j > i => ~Log[j].passed}

\* C14: the recorded last text is the initial empty value or a text whose
\* delivery succeeded: the comparison that made the most recent recording
\* ended in a successful delivery.
C14_RecordedOnlyAfterDelivery ==
    \A i \in LastRecording :
        Log[i].key = previous_message => Log[i].delivered = "ok"

\* a send_message call has just raised into main
SendRaised ==
    /\ pc \in {"except", "crashed"}
    /\ Log # <<>>
    /\ Log[Len(Log)].delivered = "failed"

\* C15: whatever the chat transport does, the only exception send_message
\* lets out to its caller is the classified delivery error.
C15_OnlyClassifiedSendError ==
    SendRaised => error.type = "BotSendMessageError"

-----------------------------------------------------------------------------
(* check_response and parse_status on their own: a candidate payload is
   drawn, validated as line 125 does and its items translated as line 127
   does, with no service, chat or clock around them *)

UnitMaxItems == 2   \* longest homeworks list of a candidate payload

UnitNames == {"hw1", "hw 2"}
UnitStatuses == {"approved", "reviewing", "rejected", "in_review", "Approved", ""}
UnitItems == [homework_name : UnitNames, status : UnitStatuses]
UnitLists == SeqsUpTo(UnitItems, UnitMaxItems)

\* what json() can hand to check_response
UnitCandidates ==
    {NoResponse, JStr("none"), JList(<<>>)}
    \cup {JList(hs) : hs \in {l \in UnitLists : Len(l) = 1}}
    \cup {JDict(<<>>)}
    \cup {JDict([current_date |-> d]) : d \in ServerDates}
    \cup {JDict([homeworks |-> v]) : v \in {JList(<<>>), JStr("none")}}
    \cup {JDict([current_date |-> d, homeworks |-> v]) :
            d \in ServerDates, v \in {JStr("none"), NoResponse, JDict(<<>>)}}
    \cup {JDict([current_date |-> d, homeworks |-> JList(hs)]) :
            d \in ServerDates, hs \in UnitLists}

UnitInit ==
    /\ env = [PRACTICUM_TOKEN |-> "secret", TELEGRAM_TOKEN |-> "secret",
              TELEGRAM_CHAT_ID |-> "secret"]
    /\ pc = "unit"
    /\ response \in UnitCandidates
    /\ homeworks = <<>>
    /\ idx = 1
    /\ error = NoError
    /\ cyc = [results |-> <<>>]
    /\ current_timestamp = 0
    /\ previous_message = ""
    /\ ticks = 0
    /\ persist = NoOutcome
    /\ prev = Summary(NewCycle(0))
    /\ last = [status |-> "", error |-> "", kind |-> "none"]

\* line 125: homeworks = check_response(response)
UnitValidate ==
    /\ pc = "unit"
    /\ LET c == check_response(response)
       IN  IF c.raised
           THEN pc' = "unit_invalid" /\ error' = c.exc /\ UNCHANGED homeworks
           ELSE pc' = "unit_items" /\ homeworks' = c.value.v /\ UNCHANGED error
    /\ UNCHANGED <<env, current_timestamp, previous_message, response, idx, ticks,
                   persist, cyc, prev, last>>

\* line 127: message = parse_status(homework), for the items in turn
UnitTranslate ==
    /\ pc = "unit_items"
    /\ idx <= Len(homeworks)
    /\ LET r == parse_status(homeworks[idx])
       IN  /\ cyc' = [cyc EXCEPT !.results = Append(@, r)]
           /\ IF r.raised
              THEN pc' = "unit_unknown" /\ error' = r.exc /\ UNCHANGED idx
              ELSE idx' = idx + 1 /\ UNCHANGED <<pc, error>>
    /\ UNCHANGED <<env, current_timestamp, previous_message, response, homeworks,
                   ticks, persist, prev, last>>

UnitNext == UnitValidate \/ UnitTranslate

UnitSpec == UnitInit /\ [][UnitNext]_vars

\* the failure kinds of the validator, by the exception raised
FailureKind(e) ==
    CASE e = Exc("TypeError", "Otvet servisa ne avlaetsa slovarem") -> "MalformedResponse"
      [] e = Exc("KeyError", "V otvete servisa net dannyh po nujnym klucam") -> "MissingField"
      [] e = Exc("TypeError", "Dannye homeworks ne avlautsa spiskom") -> "WrongType"
      [] OTHER -> "other"

\* what the contract of the validator says about a candidate
ExpectedKind(r) ==
    IF r.t # "dict" THEN "MalformedResponse"
    ELSE IF "current_date" \notin DOMAIN r.v \/ "homeworks" \notin DOMAIN r.v
    THEN "MissingField"
    ELSE IF r.v.homeworks.t # "list" THEN "WrongType"
    ELSE "ok"

\* C16: the validator classifies every candidate: not a mapping gives
\* MalformedResponse, a missing key gives MissingField whatever the type of
\* homeworks, a non-list homeworks gives WrongType, anything else returns the
\* homeworks list as it is; the three failures are told apart by the
\* exception raised and by the text main reports.
C16_ValidatorClassifies ==
    /\ pc = "unit_invalid" =>
          /\ ExpectedKind(response) # "ok"
          /\ FailureKind(error) = ExpectedKind(response)
          /\ homeworks = <<>>
    /\ pc \in {"unit_items", "unit_unknown"} =>
          /\ ExpectedKind(response) = "ok"
          /\ homeworks = response.v.homeworks.v
    /\ \A r1, r2 \in UnitCandidates :
          LET c1 == check_response(r1)
              c2 == check_response(r2)
          IN  c1.raised /\ c2.raised /\ ExpectedKind(r1) # ExpectedKind(r2) =>
                  /\ c1.exc # c2.exc
                  /\ ErrorKey(ErrorMessage(c1.exc)) # ErrorKey(ErrorMessage(c2.exc))

C16_Witness ==
    /\ pc = "unit_invalid"
    /\ response = JDict([homeworks |-> JStr("none")])
    /\ FailureKind(error) = "MissingField"

Contains(s, sub) ==
    \E i \in 1..(Len(s) - Len(sub) + 1) : SubSeq(s, i, i + Len(sub) - 1) = sub

\* C17: the translator returns a string exactly for the statuses approved,
\* reviewing and rejected, and the string is the name of the item put
\* together with the verdict of the table; for any other status it raises
\* the unknown-status error, whose text carries the status, and returns
\* nothing.
C17_TranslatorTable ==
    \A i \in DOMAIN cyc.results :
        LET h == homeworks[i]
            r == cyc.results[i]
        IN  /\ ~r.raised <=> h.status \in {"approved", "reviewing", "rejected"}
            /\ ~r.raised =>
                  r.value = "Izmenilsa status proverki raboty \"" \o h.homework_name
                            \o "\". " \o VERDICTS[h.status]
            /\ r.raised =>
                  /\ r.value = [t |-> "none"]
                  /\ r.exc.type = "KeyError"
                  /\ r.exc.arg = "Polucen nedokumentirovannyi status domawnei raboty - '"
                                 \o h.status \o "'"
                  /\ Contains(r.exc.arg, h.status)

C17_Witness ==
    /\ pc = "unit_unknown"
    /\ Len(cyc.results) = 2
    /\ ~cyc.results[1].raised
    /\ homeworks[1].status = "reviewing"
    /\ homeworks[2].status = "in_review"
    /\ cyc.results[2].raised

\* the service has settled on a valid payload with exactly one item of
\* unknown status, and item j of it is another item, of known status
OneUnknownBeside(j) ==
    /\ persist.kind = "json"
    /\ persist.body \in ValidPayloads
    /\ LET hs == persist.body.v.homeworks.v
       IN  /\ j <= Len(hs)
           /\ hs[j].status \in VerdictKeys
           /\ Cardinality({k \in DOMAIN hs : hs[k].status \notin VerdictKeys}) = 1

\* item j of that payload has come to its comparison in the current cycle
ItemReached(j) ==
    /\ OneUnknownBeside(j)
    /\ cyc.stage = "valid"
    /\ homeworks = persist.body.v.homeworks.v
    /\ Len(Log) >= j
    /\ Log[j].kind = "status"

\* C18: when the service keeps returning a payload with one item of unknown
\* status and the loop keeps polling, every other item of the payload,
\* before or after the unknown one, comes to its notification in some cycle.
C18_UnknownItemSkipped ==
    \A j \in 1..MaxItems :
        ([]<>(pc = "fetch") /\ <>OneUnknownBeside(j)) => <>ItemReached(j)

\* the key of the most recent send attempt of the run, "" before the first
LastAttemptKey == IF last.kind = "none" THEN "" ELSE last[last.kind]

\* C19: the single recorded value is always the key of the most recent send
\* attempt, of either kind; a send is attempted exactly when the new key
\* differs from it, so no two consecutive attempts carry the same key.
C19_NoRepeatedKey ==
    /\ pc # "start" => previous_message = LastAttemptKey
    /\ \A i \in DOMAIN Log :
          /\ Log[i].passed <=> Log[i].key # Log[i].before
          /\ Log[i].key = (IF Log[i].kind = "status" THEN Log[i].text
                           ELSE Take(Log[i].text, ERROR_MESSAGE_LENGTH))
          /\ \A j \in DOMAIN Log :
                (/\ i < j
                 /\ Log[i].passed
                 /\ Log[j].passed
                 /\ \A k \in (i + 1)..(j - 1) : ~Log[k].passed)
                => /\ Log[j].before = Log[i].key
                   /\ Log[j].key # Log[i].key

C19_Witness ==
    /\ pc = "sleep"
    /\ ticks >= 1
    /\ Len(Log) = 2
    /\ Log[1].kind = "status" /\ Log[1].passed /\ Log[1].after = "error"
    /\ Log[2].kind = "error" /\ Log[2].passed
    /\ Len(Log[2].text) > ERROR_MESSAGE_LENGTH
    /\ previous_message = Log[2].key

\* C20: the checkpoint advances past a payload only when every item of it
\* was translated and then delivered without exception or suppressed as a
\* duplicate; when the send of an item raises, the checkpoint stays where it
\* was, and when the next cycle gets the same payload and comes to that
\* item, the item is attempted again, not suppressed.
C20_NoNotificationLost ==
    /\ cyc.assigns >= 1 =>
          /\ current_timestamp = cyc.date
          /\ Len(Log) = Len(homeworks)
          /\ \A i \in DOMAIN Log :
                /\ Log[i].kind = "status"
                /\ Log[i].text = StatusText(homeworks[i])
                /\ Log[i].passed => Log[i].delivered = "ok"
                /\ ~Log[i].passed => Log[i].key = Log[i].before
    /\ FailedAt(Log) > 0 =>
          /\ cyc.assigns = 0
          /\ current_timestamp = cyc.start_ts
    /\ \A j \in DOMAIN Log :
          (/\ prev.failedAt = j
           /\ prev.persisted
           /\ cyc.stage = "valid"
           /\ Log[j].kind = "status")
          => Log[j].passed

C20_Witness ==
    /\ pc = "sleep"
    /\ prev.failedAt = 2
    /\ prev.persisted
    /\ cyc.assigns = 1
    /\ Len(Log) = 2
    /\ Log[2].passed /\ Log[2].delivered = "ok"

=============================================================================
